---- MODULE Spec2Model ----
(***************************************************************************)
(* kaptinlin/jsonpointer: the path walkers find (find.go), findByPointer   *)
(* (findbypointer.go) and get (get.go) over a dynamically typed document,  *)
(* with the helpers of util.go and the reference predicates of types.go.   *)
(*                                                                         *)
(* A document node is a record tagged with its Go kind (field k):          *)
(*   nil interface, int and string scalars, slices, fixed arrays, maps,    *)
(*   structs and pointers.  Go has one nil: the "absent" value a walker    *)
(*   yields and a JSON null stored in the document are the same Nil.       *)
(* A string is a sequence of one-character strings, so that the index      *)
(* parsers and the escaping work on characters as the code does.           *)
(* A path step (PathStep = any) is a record tagged with its Go type t.     *)
(*                                                                         *)
(* The three walkers read their path left to right, one step per loop      *)
(* iteration, and never look ahead; the caller's path is therefore         *)
(* supplied one step at a time (the Walk actions), and each walker runs    *)
(* the iteration of its loop that consumes the step.  What a function      *)
(* returns for the path supplied so far is FindResult,                     *)
(* FindByPointerResult and GetResult.                                      *)
(*                                                                         *)
(* Spec      the three walkers in lock step over one document.             *)
(* UtilSpec  the conversions of util.go applied one after the other.       *)
(* PathSpec  the path utilities, the validation and the index parsers,     *)
(*           called on an argument.                                        *)
(* FindSpec  the loop of find, iteration by iteration, with the retries    *)
(*           on pointers as iterations of their own.                       *)
(* The machine int is IntBits wide; fastAtoi wraps around at that width.   *)
(***************************************************************************)
EXTENDS Integers, Sequences, FiniteSets, TLC

(* ------------------------------ bounds -------------------------------- *)
\* longest sequence among the documents
MaxLen == 2
\* longest string step built from Chars
MaxStrLen == 2
\* longest path supplied to the walkers
MaxPathLen == 3
\* longest pointer or component string built from UtilChars for the
\* conversions of util.go
MaxTextLen == 3
\* longest component built from UtilChars in a path handed to formatJsonPointer
MaxCompLen == 1
\* longest path handed to formatJsonPointer
MaxComponents == 2
\* number of conversions applied one after the other
MaxOps == 2
\* number of iterations after which the loop of find is cut off
MaxIterations == 8
\* width in bits of the machine int (64 in the build, scaled down): the
\* arithmetic of fastAtoi wraps around at this width
IntBits == 9
\* longest index string handed to the index parsers
MaxIndexLen == 3

(* ------------------------------ strings ------------------------------- *)
Digits == {"0", "1", "2", "3", "4", "5", "6", "7", "8", "9"}

\* the characters string steps are built from: digits, the minus sign and
\* a letter
Chars == {"0", "1", "2", "-", "a"}

RECURSIVE StringsUpTo(_)
StringsUpTo(len) ==
  IF len = 0 THEN {<<>>}
  ELSE LET shorter == StringsUpTo(len - 1)
       IN  shorter \cup {Append(s, c) : s \in {t \in shorter : Len(t) = len - 1}, c \in Chars}

DigitVal(c) ==
  CASE c = "0" -> 0 [] c = "1" -> 1 [] c = "2" -> 2 [] c = "3" -> 3 [] c = "4" -> 4
    [] c = "5" -> 5 [] c = "6" -> 6 [] c = "7" -> 7 [] c = "8" -> 8 [] c = "9" -> 9

DigitChar(d) ==
  CASE d = 0 -> "0" [] d = 1 -> "1" [] d = 2 -> "2" [] d = 3 -> "3" [] d = 4 -> "4"
    [] d = 5 -> "5" [] d = 6 -> "6" [] d = 7 -> "7" [] d = 8 -> "8" [] d = 9 -> "9"

AllDigits(s) == \A i \in 1..Len(s) : s[i] \in Digits

\* value of a string of decimal digits, read left to right
RECURSIVE DigitsValue(_)
DigitsValue(s) ==
  IF s = <<>> THEN 0
  ELSE 10 * DigitsValue(SubSeq(s, 1, Len(s) - 1)) + DigitVal(s[Len(s)])

\* the largest and the smallest machine int
MaxInt == 2 ^ (IntBits - 1) - 1
MinInt == 0 - 2 ^ (IntBits - 1)

\* two's complement wrap-around of the machine int
WrapInt(x) ==
  LET low == x % (2 ^ IntBits)
  IN  IF low > MaxInt THEN low - 2 ^ IntBits ELSE low

\* strconv.Atoi: an optional sign followed by one or more decimal digits;
\* a value outside the machine int is a range error
Atoi(s) ==
  LET signed == Len(s) > 0 /\ s[1] \in {"+", "-"}
      body   == IF signed THEN SubSeq(s, 2, Len(s)) ELSE s
      value  == IF signed /\ s[1] = "-" THEN 0 - DigitsValue(body) ELSE DigitsValue(body)
  IN  IF body = <<>> \/ ~AllDigits(body)
      THEN [ok |-> FALSE, n |-> 0]
      ELSE IF value > MaxInt \/ value < MinInt
      THEN [ok |-> FALSE, n |-> 0]
      ELSE [ok |-> TRUE, n |-> value]

\* strconv.ParseInt(s, 10, 64): as Atoi, the int being 64 bits wide
ParseInt(s) == Atoi(s)

\* strconv.Itoa
RECURSIVE NatToString(_)
NatToString(n) ==
  IF n < 10 THEN <<DigitChar(n)>>
  ELSE Append(NatToString(n \div 10), DigitChar(n % 10))

Itoa(n) == IF n < 0 THEN <<"-">> \o NatToString(0 - n) ELSE NatToString(n)

(* ------------------------------ path steps ---------------------------- *)
StrStep(s)         == [t |-> "string", s |-> s]
IntStep(n)         == [t |-> "int", n |-> n]
Int64Step(n)       == [t |-> "int64", n |-> n]
\* the float64 n, or n + 0.5 when half
FloatStep(n, half) == [t |-> "float64", n |-> n, half |-> half]
BoolStep           == [t |-> "bool"]
\* the nil Key of a Reference
NoKey              == [t |-> "nil"]

(* ------------------------------ util.go ------------------------------- *)
\* the digit loop of fastAtoi, n being the value accumulated so far
RECURSIVE fastAtoiLoop(_, _, _)
fastAtoiLoop(s, i, n) ==
  IF i > Len(s) THEN n
  ELSE IF s[i] \notin Digits THEN -1
  ELSE LET t == WrapInt(n * 10 + DigitVal(s[i]))
       IN  IF t < n THEN -1 ELSE fastAtoiLoop(s, i + 1, t)

fastAtoi(s) ==
  IF Len(s) = 0 THEN -1
  ELSE IF s = <<"0">> THEN 0
  ELSE IF s[1] = "0" THEN -1
  ELSE fastAtoiLoop(s, 1, 0)

\* the byte loop of unescapeComponent from index i on
RECURSIVE unescapeLoop(_, _)
unescapeLoop(c, i) ==
  IF i > Len(c) THEN <<>>
  ELSE IF c[i] = "~" /\ i + 1 <= Len(c)
       THEN CASE c[i + 1] = "0" -> <<"~">> \o unescapeLoop(c, i + 2)
              [] c[i + 1] = "1" -> <<"/">> \o unescapeLoop(c, i + 2)
              [] OTHER          -> <<c[i]>> \o unescapeLoop(c, i + 1)
       ELSE <<c[i]>> \o unescapeLoop(c, i + 1)

\* one pass of a replace-all: every "~" followed by d becomes r
RECURSIVE replaceEscape(_, _, _, _)
replaceEscape(c, i, d, r) ==
  IF i > Len(c) THEN <<>>
  ELSE IF c[i] = "~" /\ i + 1 <= Len(c) /\ c[i + 1] = d
       THEN <<r>> \o replaceEscape(c, i + 2, d, r)
       ELSE <<c[i]>> \o replaceEscape(c, i + 1, d, r)

\* unescapeComponent in two passes in the wrong order: "~0" to "~" first,
\* then "~1" to "/"
unescapeComponent_ZeroFirst(component) ==
  replaceEscape(replaceEscape(component, 1, "0", "~"), 1, "1", "/")

unescapeComponent(component) ==
  IF \A i \in 1..Len(component) : component[i] # "~" THEN component
  ELSE unescapeLoop(component, 1)

componentToString(c) ==
  CASE c.t = "string"  -> c.s
    [] c.t = "int"     -> Itoa(c.n)
    [] c.t = "int64"   -> Itoa(c.n)
    [] c.t = "float64" -> IF c.half THEN Itoa(c.n) \o <<".", "5">> ELSE Itoa(c.n)
    [] OTHER           -> <<>>

\* escapeComponent with "/" escaped as it is, not after "~"
escapeComponent_SlashKept(component) ==
  IF \A i \in 1..Len(component) : component[i] \notin {"/", "~"} THEN component
  ELSE LET esc[i \in 0..Len(component)] ==
             IF i = 0 THEN <<>>
             ELSE esc[i - 1] \o (CASE component[i] = "~" -> <<"~", "0">>
                                   [] OTHER              -> <<component[i]>>)
       IN  esc[Len(component)]

\* escapeComponent(component): the byte loop builds the result left to right
escapeComponent(component) ==
  IF \A i \in 1..Len(component) : component[i] \notin {"/", "~"} THEN component
  ELSE LET esc[i \in 0..Len(component)] ==
             IF i = 0 THEN <<>>
             ELSE esc[i - 1] \o (CASE component[i] = "~" -> <<"~", "0">>
                                   [] component[i] = "/" -> <<"~", "1">>
                                   [] OTHER              -> <<component[i]>>)
       IN  esc[Len(component)]

\* the loop of parseJsonPointer from byte i (counted from 0) of the pointer
\* on, the current segment starting at byte start: the loop runs on to the
\* first byte e at which e == len(pointer) or pointer[e] == '/', appends
\* the segment pointer[start:e] and goes on behind it
RECURSIVE parseLoop(_, _, _)
parseLoop(pointer, i, start) ==
  IF i > Len(pointer) THEN <<>>
  ELSE LET ends == {j \in i..Len(pointer) : j = Len(pointer) \/ pointer[j + 1] = "/"}
           e    == CHOOSE j \in ends : \A k \in ends : j <= k
       IN  <<StrStep(unescapeComponent(SubSeq(pointer, start + 1, e)))>>
           \o parseLoop(pointer, e + 1, e + 1)

\* parseJsonPointer with the segments taken as they are
parseJsonPointer_NoUnescape(pointer) ==
  LET cut[i \in 0..Len(pointer)] ==
        \* the segments of pointer[1:i], the last one still open
        IF i <= 1 THEN <<<<>>>>
        ELSE IF pointer[i] = "/" THEN Append(cut[i - 1], <<>>)
        ELSE [cut[i - 1] EXCEPT ![Len(cut[i - 1])] = Append(@, pointer[i])]
  IN  IF pointer = <<>> THEN <<>>
      ELSE [j \in 1..Len(cut[Len(pointer)]) |-> StrStep(cut[Len(pointer)][j])]

\* parseJsonPointer with the empty segments left out
parseJsonPointer_EmptyDropped(pointer) ==
  IF pointer = <<>> THEN <<>>
  ELSE SelectSeq(parseLoop(pointer, 1, 1), LAMBDA x : x.s # <<>>)

\* parseJsonPointer(pointer): the first byte is skipped, whatever it is
parseJsonPointer(pointer) ==
  IF pointer = <<>> THEN <<>> ELSE parseLoop(pointer, 1, 1)

\* IsRoot(path)
IsRoot(path) == Len(path) = 0

\* componentEqual(a, b)
componentEqual(a, b) == componentToString(a) = componentToString(b)

\* IsChild with the lengths compared by > only: a path is a child of itself
IsChild_EqualIncluded(parent, child) ==
  IF Len(parent) > Len(child) THEN FALSE
  ELSE \A i \in 1..Len(parent) : componentEqual(parent[i], child[i])

\* Parent returning the empty path, and no error, for the empty path
Parent_RootIsItsParent(path) ==
  IF Len(path) < 1 THEN [path |-> <<>>, err |-> "none"]
  ELSE [path |-> SubSeq(path, 1, Len(path) - 1), err |-> "none"]

\* IsChild(parent, child)
IsChild(parent, child) ==
  IF Len(parent) >= Len(child) THEN FALSE
  ELSE \A i \in 1..Len(parent) : componentEqual(parent[i], child[i])

\* Parent(path) (Path, error)
Parent(path) ==
  IF Len(path) < 1 THEN [path |-> <<>>, err |-> "NoParent"]
  ELSE [path |-> SubSeq(path, 1, Len(path) - 1), err |-> "none"]

\* IsValidIndex(index)
IsValidIndex(index) ==
  CASE index.t \in {"int", "int64"} -> index.n >= 0
    [] index.t = "float64"          -> index.n >= 0 /\ ~index.half
    [] index.t = "string" ->
         IF index.s = <<"-">> THEN TRUE
         ELSE LET parsed == ParseInt(index.s)
              IN  IF ~parsed.ok THEN FALSE
                  ELSE Itoa(parsed.n) = index.s /\ parsed.n >= 0
    [] OTHER -> FALSE

\* formatJsonPointer(path): "/" + strings.Join(parts, "/")
formatJsonPointer(path) ==
  LET join[i \in 0..Len(path)] ==
        IF i = 0 THEN <<>>
        ELSE join[i - 1] \o <<"/">> \o escapeComponent(componentToString(path[i]))
  IN  IF IsRoot(path) THEN <<>> ELSE join[Len(path)]

(* ------------------------------ document nodes ------------------------ *)
Nil              == [k |-> "nil"]
IntV(n)          == [k |-> "int", n |-> n]
StrV(s)          == [k |-> "string", s |-> s]
\* a Go slice []et; et is the element type as the type switches see it
Slice(et, elems) == [k |-> "slice", et |-> et, elems |-> elems]
\* a Go fixed-size array
Array(elems)     == [k |-> "array", elems |-> elems]
\* a Go map[kt]vt; m is a function from keys to nodes
Map(kt, vt, m)   == [k |-> "map", kt |-> kt, vt |-> vt, m |-> m]
\* a struct field: declared name, json tag (tagged = FALSE: no tag), value
Field(name, tagged, tag, val) == [name |-> name, tagged |-> tagged, tag |-> tag, val |-> val]
Struct(fields)   == [k |-> "struct", fields |-> fields]
\* a pointer; pt = "any" for *any, "conc" for a pointer to the type of elem.
\* A nil pointer keeps in elem the zero value of its pointee type.
Ptr(pt, elem)    == [k |-> "ptr", pt |-> pt, isnil |-> FALSE, elem |-> elem]
NilPtr(pt, zero) == [k |-> "ptr", pt |-> pt, isnil |-> TRUE, elem |-> zero]

UpperCase == {"A", "E", "I", "L", "N", "U"}
\* reflect: a field is exported when its name starts with an upper-case letter
Exported(f) == Len(f.name) > 0 /\ f.name[1] \in UpperCase

\* the dynamic types named in the type switches
IsAnySlice(v)    == v.k = "slice" /\ v.et = "any"
IsAnyMap(v)      == v.k = "map" /\ v.kt = "string" /\ v.vt = "any"
IsPtrToAnySlice(v) == v.k = "ptr" /\ v.pt = "conc" /\ IsAnySlice(v.elem)
IsPtrToAnyMap(v)   == v.k = "ptr" /\ v.pt = "conc" /\ IsAnyMap(v.elem)
IsPtrToAny(v)    == v.k = "ptr" /\ v.pt = "any"
\* []any, []string, []int, []float64
IsFastSlice(v)   == v.k = "slice" /\ v.et \in {"any", "string", "int", "float64"}
\* map[string]any, map[string]string, map[string]int, map[string]float64
IsFastMap(v)     == v.k = "map" /\ v.kt = "string" /\ v.vt \in {"any", "string", "int", "float64"}

\* obj[i] of a slice or array, i counted from 0
At(v, i)   == v.elems[i + 1]
HasKey(v, key) == key \in DOMAIN v.m

(* ------------------------------ struct fields ------------------------- *)
\* structField(name, &value): the field a key addresses in a struct or in a
\* chain of pointers to one.  A json tag equal to the key is preferred, then
\* the declared name; unexported fields and fields tagged "-" are invisible.
RECURSIVE structField(_, _)
structField(name, v) ==
  IF v.k = "ptr"
  THEN IF v.isnil THEN [found |-> FALSE, val |-> Nil] ELSE structField(name, v.elem)
  ELSE IF v.k # "struct" THEN [found |-> FALSE, val |-> Nil]
  ELSE LET visible == {i \in 1..Len(v.fields) :
                         Exported(v.fields[i]) /\ ~(v.fields[i].tagged /\ v.fields[i].tag = <<"-">>)}
           byTag   == {i \in visible : v.fields[i].tagged /\ v.fields[i].tag = name}
           byName  == {i \in visible : v.fields[i].name = name}
           First(S) == CHOOSE i \in S : \A j \in S : i <= j
       IN  IF byTag # {} THEN [found |-> TRUE, val |-> v.fields[First(byTag)].val]
           ELSE IF byName # {} THEN [found |-> TRUE, val |-> v.fields[First(byName)].val]
           ELSE [found |-> FALSE, val |-> Nil]

(* ------------------------------ find.go ------------------------------- *)
\* parseArrayKey without the comparison of strconv.Itoa(parsed) with the key
parseArrayKey_NoRoundTrip(key) ==
  CASE key.t = "int" ->
         IF key.n < 0 THEN [index |-> 0, isEndMarker |-> FALSE, err |-> "InvalidIndex"]
         ELSE [index |-> key.n, isEndMarker |-> FALSE, err |-> "none"]
    [] key.t = "string" ->
         IF key.s = <<"-">> THEN [index |-> 0, isEndMarker |-> TRUE, err |-> "none"]
         ELSE LET parsed == Atoi(key.s)
              IN  IF ~parsed.ok \/ parsed.n < 0
                  THEN [index |-> 0, isEndMarker |-> FALSE, err |-> "InvalidIndex"]
                  ELSE [index |-> parsed.n, isEndMarker |-> FALSE, err |-> "none"]
    [] OTHER -> [index |-> 0, isEndMarker |-> FALSE, err |-> "InvalidIndex"]

\* parseArrayKey(key) (index, isEndMarker, err)
parseArrayKey(key) ==
  CASE key.t = "int" ->
         IF key.n < 0 THEN [index |-> 0, isEndMarker |-> FALSE, err |-> "InvalidIndex"]
         ELSE [index |-> key.n, isEndMarker |-> FALSE, err |-> "none"]
    [] key.t = "string" ->
         IF key.s = <<"-">> THEN [index |-> 0, isEndMarker |-> TRUE, err |-> "none"]
         ELSE LET parsed == Atoi(key.s)
              IN  IF ~parsed.ok \/ parsed.n < 0
                  THEN [index |-> 0, isEndMarker |-> FALSE, err |-> "InvalidIndex"]
                  ELSE IF Itoa(parsed.n) # key.s
                  THEN [index |-> 0, isEndMarker |-> FALSE, err |-> "InvalidIndex"]
                  ELSE [index |-> parsed.n, isEndMarker |-> FALSE, err |-> "none"]
    [] OTHER -> [index |-> 0, isEndMarker |-> FALSE, err |-> "InvalidIndex"]

\* the loop variables of a walker after an iteration that goes on: val, obj,
\* key
Iter(val, obj, key, err) == [val |-> val, obj |-> obj, key |-> key, err |-> err]
\* return nil, err: the walker has returned and its loop variables are gone
Return(err) == Iter(Nil, Nil, NoKey, err)

\* findSequence with a bounds check that rejects an index beyond the length
findSequence_BeyondIsError(obj, key) ==
  LET k == parseArrayKey(key)
  IN  IF k.err # "none" THEN Return(k.err)
      ELSE IF k.isEndMarker THEN Iter(Nil, obj, IntStep(Len(obj.elems)), "none")
      ELSE IF k.index < Len(obj.elems) THEN Iter(At(obj, k.index), obj, IntStep(k.index), "none")
      ELSE IF k.index > Len(obj.elems) THEN Return("InvalidIndex")
      ELSE Iter(Nil, obj, IntStep(k.index), "none")

\* findSequence with a bounds check that rejects the index equal to the
\* length as well
findSequence_EndIsError(obj, key) ==
  LET k == parseArrayKey(key)
  IN  IF k.err # "none" THEN Return(k.err)
      ELSE IF k.isEndMarker THEN Iter(Nil, obj, IntStep(Len(obj.elems)), "none")
      ELSE IF k.index < Len(obj.elems) THEN Iter(At(obj, k.index), obj, IntStep(k.index), "none")
      ELSE Return("InvalidIndex")

\* findSequence with the end marker left as the key "-" instead of the length
findSequence_MarkerKept(obj, key) ==
  LET k == parseArrayKey(key)
  IN  IF k.err # "none" THEN Return(k.err)
      ELSE IF k.isEndMarker THEN Iter(Nil, obj, key, "none")
      ELSE IF k.index < Len(obj.elems) THEN Iter(At(obj, k.index), obj, IntStep(k.index), "none")
      ELSE Iter(Nil, obj, IntStep(k.index), "none")

\* find: the slice and array cases of the loop body ([]any, []string, []int,
\* []float64, reflect.Slice, reflect.Array)
findSequence(obj, key) ==
  LET k == parseArrayKey(key)
  IN  IF k.err # "none" THEN Return(k.err)
      ELSE IF k.isEndMarker THEN Iter(Nil, obj, IntStep(Len(obj.elems)), "none")
      ELSE IF k.index < Len(obj.elems) THEN Iter(At(obj, k.index), obj, IntStep(k.index), "none")
      ELSE Iter(Nil, obj, IntStep(k.index), "none")

\* findMap with a missing key reported as ErrNotFound
findMap_MissingIsError(obj, key) ==
  IF key.t # "string" THEN Return("NotFound")
  ELSE IF obj.kt # "string" THEN Return("panic")
  ELSE IF HasKey(obj, key.s) THEN Iter(obj.m[key.s], obj, key, "none")
  ELSE Return("NotFound")

\* findMap with a numeric-looking key normalized to its integer, as for a
\* sequence
findMap_KeyParsed(obj, key) ==
  IF key.t # "string" THEN Return("NotFound")
  ELSE IF obj.kt # "string" THEN Return("panic")
  ELSE LET k == IF parseArrayKey(key).err = "none" /\ ~parseArrayKey(key).isEndMarker
                 THEN IntStep(parseArrayKey(key).index) ELSE key
       IN  IF HasKey(obj, key.s) THEN Iter(obj.m[key.s], obj, k, "none")
           ELSE Iter(Nil, obj, k, "none")

\* find: the map cases (map[string]any, map[string]string, map[string]int,
\* map[string]float64, reflect.Map); reflect's MapIndex panics when a string
\* is not assignable to the key type
findMap(obj, key) ==
  IF key.t # "string" THEN Return("NotFound")
  ELSE IF obj.kt # "string" THEN Return("panic")
  ELSE IF HasKey(obj, key.s) THEN Iter(obj.m[key.s], obj, key, "none")
  ELSE Iter(Nil, obj, key, "none")

\* find: the reflect.Struct case
findStruct(obj, key) ==
  IF key.t # "string" THEN Return("NotFound")
  ELSE LET f == structField(key.s, obj)
       IN  IF f.found THEN Iter(f.val, obj, key, "none") ELSE Iter(Nil, obj, key, "none")

\* findIter with the bug of walking on through a leaf: the step yields an
\* absent value instead of ErrNotFound
findIter_LeafYieldsAbsent(val, key) ==
  IF val = Nil THEN Iter(Nil, val, key, "none")
  ELSE CASE val.k \in {"slice", "array"} -> findSequence(val, key)
         [] val.k = "map"                -> findMap(val, key)
         [] val.k = "struct"             -> findStruct(val, key)
         [] OTHER                        -> Iter(Nil, val, key, "none")

\* findIter with a nil pointer treated as an object without the field: the
\* step yields an absent value instead of ErrNotFound
findIter_NilPointerYieldsAbsent(val, key) ==
  IF val = Nil THEN Return("NotFound")
  ELSE CASE val.k \in {"slice", "array"} -> findSequence(val, key)
         [] val.k = "map"                -> findMap(val, key)
         [] val.k = "struct"             -> findStruct(val, key)
         [] val.k = "ptr"                -> Iter(Nil, val, key, "none")
         [] OTHER                        -> Return("NotFound")

\* find: one iteration of the loop on a value that is not a non-nil pointer
\* (obj = val; key = path[i]; ...)
findIter(val, key) ==
  IF val = Nil THEN Return("NotFound")
  ELSE CASE val.k \in {"slice", "array"} -> findSequence(val, key)
         [] val.k = "map"                -> findMap(val, key)
         [] val.k = "struct"             -> findStruct(val, key)
         [] OTHER                        -> Return("NotFound")

(* ------------------------------ findbypointer.go ---------------------- *)
isArrayPointer(val)  == val # Nil /\ val.k = "slice"
isObjectPointer(val) == val # Nil /\ val.k \in {"map", "struct", "ptr"}

\* findByPointer: one iteration of the loop on the segment keyStr
findByPointerIter(val, keyStr) ==
  CASE isArrayPointer(val) ->
         IF keyStr = <<"-">> THEN Iter(Nil, val, IntStep(Len(val.elems)), "none")
         ELSE LET keyInt == Atoi(keyStr)
              IN  IF ~keyInt.ok THEN Return("InvalidIndex")
                  ELSE IF Itoa(keyInt.n) # keyStr THEN Return("InvalidIndex")
                  ELSE IF keyInt.n < 0 THEN Return("InvalidIndex")
                  ELSE IF keyInt.n < Len(val.elems)
                  THEN Iter(At(val, keyInt.n), val, IntStep(keyInt.n), "none")
                  ELSE Iter(Nil, val, IntStep(keyInt.n), "none")
    [] isObjectPointer(val) /\ val # Nil ->
         LET unescaped == unescapeComponent(keyStr)
         IN  IF val.k = "map"
             THEN IF val.kt # "string" THEN Return("panic")
                  ELSE IF HasKey(val, unescaped)
                  THEN Iter(val.m[unescaped], val, StrStep(unescaped), "none")
                  ELSE Iter(Nil, val, StrStep(unescaped), "none")
             ELSE LET f == structField(unescaped, val)
                  IN  IF f.found THEN Iter(f.val, val, StrStep(unescaped), "none")
                      ELSE Iter(Nil, val, StrStep(unescaped), "none")
    [] OTHER -> Return("NotFound")

(* ------------------------------ get.go -------------------------------- *)
isArray(val)  == val # Nil /\ val.k = "slice"
isObject(val) == val # Nil /\ val.k \in {"map", "struct", "ptr"}

\* fastGet(val, step) (any, bool)
RECURSIVE fastGet(_, _)
fastGet(val, step) ==
  LET no == [val |-> Nil, ok |-> FALSE]
      fromMap(m) ==
        IF step.t = "string"
        THEN IF HasKey(m, step.s) THEN [val |-> m.m[step.s], ok |-> TRUE] ELSE no
        ELSE no
      fromSlice(v) ==
        LET keyStr == componentToString(step)
            index  == fastAtoi(keyStr)
        IN  IF keyStr = <<"-">> THEN no
            ELSE IF index < 0 \/ index >= Len(v.elems) THEN no
            ELSE [val |-> At(v, index), ok |-> TRUE]
  IN  CASE val = Nil                -> no
        [] IsAnyMap(val)            -> fromMap(val)
        [] IsPtrToAnyMap(val)       -> IF val.isnil THEN no ELSE fromMap(val.elem)
        [] IsAnySlice(val)          -> fromSlice(val)
        [] IsPtrToAnySlice(val)     -> IF val.isnil THEN no ELSE fromSlice(val.elem)
        [] IsPtrToAny(val)          -> IF val.isnil THEN no ELSE fastGet(val.elem, step)
        [] OTHER                    -> no

\* getTokenAtIndex(path, index) for the step path[index]
getTokenAtIndex(step) ==
  LET keyStr == componentToString(step)
  IN  [key |-> keyStr, index |-> fastAtoi(keyStr)]

\* tryArrayAccess(current, token) (any, bool)
tryArrayAccess(current, token) ==
  LET fromSlice(v) ==
        IF token.key = <<"-">> THEN [val |-> Nil, handled |-> TRUE]
        ELSE IF token.index < 0 \/ token.index >= Len(v.elems) THEN [val |-> Nil, handled |-> TRUE]
        ELSE [val |-> At(v, token.index), handled |-> TRUE]
  IN  CASE IsFastSlice(current)          -> fromSlice(current)
        [] IsPtrToAnySlice(current)      ->
             IF current.isnil THEN [val |-> Nil, handled |-> TRUE] ELSE fromSlice(current.elem)
        [] OTHER ->
             IF ~isArray(current) THEN [val |-> Nil, handled |-> FALSE] ELSE fromSlice(current)

\* tryObjectAccess(current, token) (any, bool); panic marks the reflect
\* panic of MapIndex on a map whose key type is not string
tryObjectAccess(current, token) ==
  LET res(v, h) == [val |-> v, handled |-> h, panic |-> FALSE]
      fromMap(m) == IF HasKey(m, token.key) THEN res(m.m[token.key], TRUE) ELSE res(Nil, TRUE)
  IN  CASE IsFastMap(current)        -> fromMap(current)
        [] IsPtrToAnyMap(current) ->
             IF current.isnil THEN res(Nil, TRUE) ELSE fromMap(current.elem)
        [] OTHER ->
             IF ~isObject(current) THEN res(Nil, FALSE)
             ELSE IF current.k = "map"
             THEN IF current.kt # "string" THEN [val |-> Nil, handled |-> FALSE, panic |-> TRUE]
                  ELSE fromMap(current)
             ELSE LET objVal == IF current.k = "ptr"
                                THEN IF current.isnil \/ current.pt = "any" THEN Nil ELSE current.elem
                                ELSE current
                  IN  IF objVal.k # "struct" THEN res(Nil, FALSE)
                      ELSE LET named == {i \in 1..Len(objVal.fields) : objVal.fields[i].name = token.key}
                           IN  IF named = {} THEN res(Nil, TRUE)
                               ELSE LET f == objVal.fields[CHOOSE i \in named : TRUE]
                                    IN  IF ~Exported(f) THEN res(Nil, TRUE) ELSE res(f.val, TRUE)

\* get: one iteration of the second loop; ret is "nil" when the iteration
\* returns nil, "panic" when it panics, "run" when the loop goes on
getIter(current, step) ==
  LET token == getTokenAtIndex(step)
      arr   == tryArrayAccess(current, token)
      obj   == tryObjectAccess(current, token)
  IN  IF current = Nil THEN [cur |-> Nil, ret |-> "nil"]
      ELSE IF arr.handled THEN [cur |-> arr.val, ret |-> "run"]
      ELSE IF obj.panic THEN [cur |-> Nil, ret |-> "panic"]
      ELSE IF obj.handled THEN [cur |-> obj.val, ret |-> "run"]
      ELSE [cur |-> Nil, ret |-> "nil"]

(* ------------------------------ documents ----------------------------- *)
sName    == <<"n", "a", "m", "e">>
sNameCap == <<"N", "a", "m", "e">>
sAge     == <<"a", "g", "e">>
sAgeCap  == <<"A", "g", "e">>
sEmail   == <<"E", "m", "a", "i", "l">>
sPrivate == <<"p", "r", "i", "v", "a", "t", "e">>
sIgnored == <<"I", "g", "n", "o", "r", "e", "d">>
sUser    == <<"u", "s", "e", "r">>
sUserCap == <<"U", "s", "e", "r">>

\* the strings of the index-parsing examples that Chars does not spell
NamedStrings ==
  {<<"1", ".", "5">>, <<" ", "1">>, <<"a", "b", "c">>, <<"+", "1">>, <<"+">>,
   <<"~">>, <<"~", "0">>, <<"~", "1">>, <<"~", "0", "1">>, <<"a", "~", "1">>}

\* the sequence 1, 2, ..., len as a []any
SeqOfLen(len) == Slice("any", [i \in 1..len |-> IntV(i)])

AnyMap(m) == Map("string", "any", m)

\* type User struct { Name string `json:"name"`; Age int `json:"age"`;
\*   Email string; private string; Ignored string `json:"-"` }
User ==
  Struct(<<Field(sNameCap, TRUE, sName, StrV(<<"A">>)),
           Field(sAgeCap, TRUE, sAge, IntV(30)),
           Field(sEmail, FALSE, <<>>, StrV(<<"E">>)),
           Field(sPrivate, FALSE, <<>>, StrV(<<"p">>)),
           Field(sIgnored, TRUE, <<"-">>, StrV(<<"I">>))>>)

\* type Profile struct { User <u> `json:"user"` } for a user value u
Profile(u) == Struct(<<Field(sUserCap, TRUE, sUser, u)>>)

\* a mapping with numeric-looking keys
NumericKeys ==
  AnyMap(<<"0">> :> IntV(5) @@ <<"0", "1">> :> IntV(6) @@ <<"1">> :> IntV(7)
         @@ <<>> :> IntV(8) @@ <<"-">> :> IntV(9) @@ <<"1", ".", "5">> :> IntV(10))

\* a mapping and a sequence at sibling positions
Siblings(len) == AnyMap(<<"a">> :> SeqOfLen(len) @@ <<"0">> :> NumericKeys)

Docs ==
  {Nil, IntV(7), StrV(<<"a">>)}
  \cup {SeqOfLen(len) : len \in 0..MaxLen}
  \cup {Siblings(len) : len \in 0..MaxLen}
  \cup {AnyMap(<<"a">> :> IntV(1)),
        AnyMap(<<"a">> :> AnyMap(<<"a">> :> SeqOfLen(MaxLen))),
        AnyMap(<<"a">> :> Nil @@ <<"0">> :> StrV(<<"a">>) @@ <<"~">> :> IntV(1) @@ <<"/">> :> IntV(2)),
        Slice("any", <<AnyMap(<<"a">> :> IntV(1)), Nil, SeqOfLen(1)>>),
        Slice("int", <<IntV(1), IntV(2)>>),
        Slice("bool", <<IntV(1)>>),
        Array(<<IntV(1), IntV(2)>>),
        Map("string", "int", <<"a">> :> IntV(1) @@ <<"1">> :> IntV(2)),
        Map("string", "bool", <<"a">> :> IntV(1)),
        Map("int", "any", 1 :> IntV(1)),
        AnyMap(<<"a">> :> Map("int", "any", 1 :> IntV(1))),
        User,
        Profile(User),
        Profile(Ptr("conc", User)),
        Ptr("conc", User),
        Ptr("conc", Ptr("conc", User)),
        NilPtr("conc", User),
        AnyMap(<<"a">> :> NilPtr("conc", User) @@ <<"0">> :> Ptr("conc", User)),
        Ptr("conc", SeqOfLen(MaxLen)),
        NilPtr("conc", SeqOfLen(0)),
        Ptr("conc", Slice("int", <<IntV(1)>>)),
        Ptr("conc", AnyMap(<<"a">> :> IntV(1))),
        NilPtr("conc", AnyMap(<<>>)),
        Ptr("any", SeqOfLen(1)),
        Ptr("any", Nil),
        NilPtr("any", Nil)}

\* the raw pointer segments a caller supplies (no "/" in a segment)
Segments ==
  StringsUpTo(MaxStrLen) \cup NamedStrings
  \cup {sName, sNameCap, sAge, sEmail, sPrivate, sIgnored, sUser, sUserCap}

\* the steps that are not strings
Values ==
  {IntStep(i) : i \in -1..(MaxLen + 1)}
  \cup {Int64Step(1), FloatStep(1, FALSE), FloatStep(1, TRUE), BoolStep}

(* ------------------------------ state --------------------------------- *)
VARIABLES
  doc,        \* the document (val) handed to the three functions
  n,          \* len(path): number of steps supplied so far
  step,       \* path[n-1], the step supplied last
  hasPointer, \* the path so far is parseJsonPointer of a pointer string
  segment,    \* the raw segment of that pointer string for path[n-1]
  fVal, fObj, fKey, fErr,   \* find: val, obj, key and the error returned
  pVal, pObj, pKey, pErr,   \* findByPointer: val, obj, key and the error returned
  gCur, gFast, gRet,        \* get: current, still in the first loop, returned
  uIn,        \* util.go: the string or path a caller starts from
  uOps,       \* util.go: the conversions applied to it, in order
  uOut,       \* util.go: what the last conversion returned
  fPath,      \* find, iteration by iteration: the path handed to it
  fI,         \* find, iteration by iteration: the loop variable i
  fIters      \* find, iteration by iteration: the iterations run so far

\* the variables of the walkers / of the conversions of util.go
walkVars == <<doc, n, step, hasPointer, segment, fVal, fObj, fKey, fErr,
              pVal, pObj, pKey, pErr, gCur, gFast, gRet>>
utilVars == <<uIn, uOps, uOut>>
loopVars == <<fPath, fI, fIters>>

vars == <<doc, n, step, hasPointer, segment, fVal, fObj, fKey, fErr,
          pVal, pObj, pKey, pErr, gCur, gFast, gRet, uIn, uOps, uOut,
          fPath, fI, fIters>>

\* a string / a path as the argument or result of a conversion
Text(s)    == [kind |-> "text", s |-> s]
PathOf(p)  == [kind |-> "path", p |-> p]
\* no conversion is called
NoArgument == [kind |-> "none"]

findVars == <<fVal, fObj, fKey, fErr>>
fbpVars  == <<pVal, pObj, pKey, pErr>>
getVars  == <<gCur, gFast, gRet>>

Init ==
  /\ doc \in Docs
  /\ n = 0 /\ step = NoKey /\ hasPointer = TRUE /\ segment = <<>>
  /\ fVal = doc /\ fObj = Nil /\ fKey = NoKey /\ fErr = "none"
  /\ pVal = doc /\ pObj = Nil /\ pKey = NoKey /\ pErr = "none"
  /\ gCur = doc /\ gFast = TRUE /\ gRet = "run"
  /\ uIn = NoArgument /\ uOps = <<>> /\ uOut = NoArgument
  /\ fPath = <<>> /\ fI = 0 /\ fIters = 0

\* find: the iterations of the loop that consume the step key: the retries
\* of case reflect.Ptr (dereference, i--, continue), then the iteration
\* that handles the step
RECURSIVE findLoop(_, _)
findLoop(val, key) ==
  IF val # Nil /\ val.k = "ptr" /\ ~val.isnil
  THEN findLoop(val.elem, key)
  ELSE findIter(val, key)

\* find reads the step supplied (step'), unless it has returned
FindStep ==
  IF fErr # "none" THEN UNCHANGED findVars
  ELSE LET r == findLoop(fVal, step')
       IN  fVal' = r.val /\ fObj' = r.obj /\ fKey' = r.key /\ fErr' = r.err

\* findByPointer reads the segment supplied (segment'), unless it has
\* returned; it has no part in a path that no pointer string spells
FindByPointerStep ==
  IF pErr # "none" \/ ~hasPointer' THEN UNCHANGED fbpVars
  ELSE LET r == findByPointerIter(pVal, segment')
       IN  pVal' = r.val /\ pObj' = r.obj /\ pKey' = r.key /\ pErr' = r.err

\* get: the iteration that consumes the step - of the first loop (fastGet)
\* while it goes on, else of the second loop, which starts at the step the
\* first loop missed
getLoops(current, fast, key) ==
  LET f == fastGet(current, key)
      s == getIter(current, key)
  IN  IF fast /\ f.ok THEN [cur |-> f.val, fast |-> TRUE, ret |-> "run"]
      ELSE [cur |-> s.cur, fast |-> FALSE, ret |-> s.ret]

\* get reads the step supplied (step'), unless it has returned
GetStep ==
  IF gRet # "run" THEN UNCHANGED getVars
  ELSE LET r == getLoops(gCur, gFast, step')
       IN  gCur' = r.cur /\ gFast' = r.fast /\ gRet' = r.ret

\* some walker is still in its loop and would read a further step
Live == fErr = "none" \/ (hasPointer /\ pErr = "none") \/ gRet = "run"

\* WalkSegment with the document passed by reference: the assignments of
\* find to its parameter val reach the caller's document
WalkSegment_ValAliased(r) ==
  /\ n < MaxPathLen /\ Live
  /\ n' = n + 1
  /\ step' = StrStep(unescapeComponent(r))
  /\ segment' = r
  /\ UNCHANGED hasPointer
  /\ FindStep /\ FindByPointerStep /\ GetStep
  /\ doc' = fVal'
  /\ UNCHANGED <<utilVars, loopVars>>

\* the caller's pointer string goes on with "/" and the segment r, the path
\* (parseJsonPointer of it) with the unescaped segment; each walker runs
\* the iteration of its loop that reads it
WalkSegment(r) ==
  /\ n < MaxPathLen /\ Live
  /\ n' = n + 1
  /\ step' = StrStep(unescapeComponent(r))
  /\ segment' = r
  /\ UNCHANGED <<doc, hasPointer>>
  /\ FindStep /\ FindByPointerStep /\ GetStep
  /\ UNCHANGED <<utilVars, loopVars>>

\* the caller's path goes on with a step that is not a string; no pointer
\* string parses to such a path
WalkValue(x) ==
  /\ n < MaxPathLen /\ Live
  /\ n' = n + 1
  /\ step' = x
  /\ segment' = <<>>
  /\ hasPointer' = FALSE
  /\ UNCHANGED doc
  /\ FindStep /\ FindByPointerStep /\ GetStep
  /\ UNCHANGED <<utilVars, loopVars>>

Next ==
  \/ \E r \in Segments : WalkSegment(r)
  \/ \E x \in Values : WalkValue(x)

Spec == Init /\ [][Next]_vars

(* ------------------------------ util.go: conversions ------------------- *)
\* the characters pointers and components are built from: the two
\* characters that are escaped and the two digits of the escape sequences;
\* a digit that follows no "~" is an ordinary character
UtilChars == {"~", "/", "0", "1"}

RECURSIVE StringsOver(_, _)
StringsOver(chars, len) ==
  IF len = 0 THEN {<<>>}
  ELSE LET shorter == StringsOver(chars, len - 1)
       IN  shorter \cup {Append(s, c) : s \in {x \in shorter : Len(x) = len - 1}, c \in chars}

\* the strings of the examples: "a~b/c", "a~0b~1c", "~01", "/foo~1bar",
\* "/a~0b/c~1d/1", "/foo///"
NamedTexts ==
  {<<"a", "~", "b", "/", "c">>, <<"a", "~", "0", "b", "~", "1", "c">>, <<"~", "0", "1">>,
   <<"/", "f", "o", "o", "~", "1", "b", "a", "r">>,
   <<"/", "a", "~", "0", "b", "/", "c", "~", "1", "d", "/", "1">>,
   <<"/", "f", "o", "o", "/", "/", "/">>}

\* the pointer strings and components handed to the conversions
Texts == StringsOver(UtilChars, MaxTextLen) \cup NamedTexts

\* the components of the paths handed to formatJsonPointer
Components ==
  StringsOver(UtilChars, MaxCompLen)
  \cup {<<"~", "0">>, <<"~", "1">>, <<"~", "0", "1">>, <<"a", "~", "b", "/", "c">>}

\* the paths of at most len string steps
RECURSIVE PathsUpTo(_)
PathsUpTo(len) ==
  IF len = 0 THEN {<<>>}
  ELSE LET shorter == PathsUpTo(len - 1)
       IN  shorter \cup {Append(q, StrStep(c)) : q \in {x \in shorter : Len(x) = len - 1},
                                                 c \in Components}

\* a caller starts from a string or from a path of string steps
UtilInit ==
  /\ doc = Nil
  /\ n = 0 /\ step = NoKey /\ hasPointer = TRUE /\ segment = <<>>
  /\ fVal = doc /\ fObj = Nil /\ fKey = NoKey /\ fErr = "none"
  /\ pVal = doc /\ pObj = Nil /\ pKey = NoKey /\ pErr = "none"
  /\ gCur = doc /\ gFast = TRUE /\ gRet = "run"
  /\ uIn \in {Text(s) : s \in Texts} \cup {PathOf(q) : q \in PathsUpTo(MaxComponents)}
  /\ uOps = <<>>
  /\ uOut = uIn
  /\ fPath = <<>> /\ fI = 0 /\ fIters = 0

\* the caller hands the last result to the conversion op and keeps what
\* it returns
Apply(op, result) ==
  /\ Len(uOps) < MaxOps
  /\ uOps' = Append(uOps, op)
  /\ uOut' = result
  /\ UNCHANGED <<uIn, walkVars, loopVars>>

ParseJsonPointer  == uOut.kind = "text" /\ Apply("parse", PathOf(parseJsonPointer(uOut.s)))
FormatJsonPointer == uOut.kind = "path" /\ Apply("format", Text(formatJsonPointer(uOut.p)))
EscapeComponent   == uOut.kind = "text" /\ Apply("escape", Text(escapeComponent(uOut.s)))
UnescapeComponent == uOut.kind = "text" /\ Apply("unescape", Text(unescapeComponent(uOut.s)))

UtilNext ==
  \/ ParseJsonPointer
  \/ FormatJsonPointer
  \/ EscapeComponent
  \/ UnescapeComponent

UtilSpec == UtilInit /\ [][UtilNext]_vars

(* ------------------------------ util.go: path utilities, validation ---- *)
\* longest pointer string that validates (in bytes)
MaxPointerLength == 1024
\* longest path that validates (in steps)
MaxPathSteps == 256

\* steps that are neither strings nor numbers: a nested slice, a nested map
SliceStep == [t |-> "slice"]
MapStep   == [t |-> "map"]

\* arguments of type any besides a string and a Path: a []any, a []string,
\* a []int, a number, a map
AnySlice(p)     == [kind |-> "anys", p |-> p]
StringSlice(ss) == [kind |-> "strings", ss |-> ss]
IntSlice(ns)    == [kind |-> "ints", ns |-> ns]
NumberArg       == [kind |-> "number"]
MapArg          == [kind |-> "map"]
\* the two paths handed to IsChild
PathPair(parent, child) == [kind |-> "pair", parent |-> parent, child |-> child]
\* a step handed to the index parsers
IndexArg(x) == [kind |-> "index", x |-> x]
\* results: an error (or nil: "none"), a bool, an int
ErrorOf(err) == [kind |-> "error", err |-> err]
BoolOf(b)    == [kind |-> "bool", b |-> b]
IntOf(i)     == [kind |-> "int", i |-> i]

\* ToPath(pointer any) Path
ToPath(pointer) ==
  CASE pointer.kind = "text" -> parseJsonPointer(pointer.s)
    [] pointer.kind = "path" -> pointer.p
    [] pointer.kind = "anys" -> pointer.p
    [] OTHER                 -> <<>>

\* the step is a string or a number
IsPathStep(x) == x.t \in {"string", "int", "int64", "float64"}

\* validatePath with the limit one step early
validatePath_LimitExclusive(path) ==
  IF path.kind \notin {"path", "anys", "strings", "ints"} THEN "InvalidPath"
  ELSE IF path.kind = "strings"
  THEN (IF Len(path.ss) >= MaxPathSteps THEN "PathTooLong" ELSE "none")
  ELSE IF path.kind = "ints"
  THEN (IF Len(path.ns) >= MaxPathSteps THEN "PathTooLong" ELSE "none")
  ELSE IF Len(path.p) >= MaxPathSteps THEN "PathTooLong"
  ELSE IF \E j \in 1..Len(path.p) : ~IsPathStep(path.p[j]) THEN "InvalidPathStep"
  ELSE "none"

\* validatePath(path any) error
validatePath(path) ==
  IF path.kind \notin {"path", "anys", "strings", "ints"} THEN "InvalidPath"
  ELSE IF path.kind = "strings"
  THEN (IF Len(path.ss) > MaxPathSteps THEN "PathTooLong" ELSE "none")
  ELSE IF path.kind = "ints"
  THEN (IF Len(path.ns) > MaxPathSteps THEN "PathTooLong" ELSE "none")
  ELSE IF Len(path.p) > MaxPathSteps THEN "PathTooLong"
  ELSE IF \E j \in 1..Len(path.p) : ~IsPathStep(path.p[j]) THEN "InvalidPathStep"
  ELSE "none"

\* validateJsonPointer with the limit one byte early
validateJsonPointer_LimitExclusive(pointer) ==
  IF pointer.kind # "text" THEN validatePath(pointer)
  ELSE IF pointer.s = <<>> THEN "none"
  ELSE IF pointer.s[1] # "/" THEN "PointerInvalid"
  ELSE IF Len(pointer.s) >= MaxPointerLength THEN "PointerTooLong"
  ELSE "none"

\* validateJsonPointer(pointer any) error
validateJsonPointer(pointer) ==
  IF pointer.kind # "text" THEN validatePath(pointer)
  ELSE IF pointer.s = <<>> THEN "none"
  ELSE IF pointer.s[1] # "/" THEN "PointerInvalid"
  ELSE IF Len(pointer.s) > MaxPointerLength THEN "PointerTooLong"
  ELSE "none"

\* a string of len bytes: first, then "a" repeated
LongText(first, len) == [j \in 1..len |-> IF j = 1 THEN first ELSE "a"]
\* a path of len steps "step"
LongPath(len) == [j \in 1..len |-> StrStep(<<"s", "t", "e", "p">>)]

\* the pointer strings handed to the validation and to ToPath: short ones,
\* "/foo/bar", "foo/bar", "/foo///", and the ones about the limit
PointerChars == {"/", "a"}
Pointers ==
  StringsOver(PointerChars, MaxTextLen)
  \cup {<<"/", "f", "o", "o", "/", "b", "a", "r">>, <<"f", "o", "o", "/", "b", "a", "r">>,
        <<"/", "f", "o", "o", "/", "/", "/">>}
  \cup {LongText(c, len) : c \in PointerChars,
                           len \in (MaxPointerLength - 1)..(MaxPointerLength + 1)}

\* the steps of the paths handed to the path utilities
sFoo == <<"f", "o", "o">>
sBar == <<"b", "a", "r">>
PathSteps ==
  {StrStep(sFoo), StrStep(sBar), StrStep(<<>>), StrStep(<<"1">>), IntStep(1), IntStep(0),
   FloatStep(1, FALSE), BoolStep, NoKey, SliceStep, MapStep}

RECURSIVE PathsOver(_, _)
PathsOver(steps, len) ==
  IF len = 0 THEN {<<>>}
  ELSE LET shorter == PathsOver(steps, len - 1)
       IN  shorter \cup {Append(q, x) : q \in {y \in shorter : Len(y) = len - 1}, x \in steps}

\* the paths handed to the path utilities: short ones and the ones about
\* the limit
Paths ==
  PathsOver(PathSteps, MaxComponents)
  \cup {<<StrStep(sFoo), StrStep(sBar), StrStep(<<"b", "a", "z">>)>>,
        <<StrStep(sFoo), BoolStep, StrStep(sBar)>>}
  \cup {LongPath(len) : len \in (MaxPathSteps - 1)..(MaxPathSteps + 1)}
  \cup {Append(LongPath(len), BoolStep) : len \in (MaxPathSteps - 1)..MaxPathSteps}

\* the steps of the paths handed to IsChild: strings and integers
ChildSteps == {StrStep(<<>>), StrStep(sFoo), StrStep(sBar), StrStep(<<"1">>), IntStep(1)}

\* the characters index strings are built from
IndexChars == {"0", "1", "5", "7", "-", "+", "a"}
\* the steps handed to the index parsers
Indexes ==
  {StrStep(x) : x \in StringsOver(IndexChars, MaxIndexLen)}
  \cup {IntStep(-1), IntStep(0), IntStep(1), Int64Step(1), FloatStep(1, FALSE),
        FloatStep(1, TRUE), BoolStep, NoKey}

\* a caller starts from an argument of a path utility
PathInit ==
  /\ doc = Nil
  /\ n = 0 /\ step = NoKey /\ hasPointer = TRUE /\ segment = <<>>
  /\ fVal = doc /\ fObj = Nil /\ fKey = NoKey /\ fErr = "none"
  /\ pVal = doc /\ pObj = Nil /\ pKey = NoKey /\ pErr = "none"
  /\ gCur = doc /\ gFast = TRUE /\ gRet = "run"
  /\ uIn \in {Text(x) : x \in Pointers}
         \cup {PathOf(q) : q \in Paths}
         \cup {AnySlice(q) : q \in PathsOver(PathSteps, 1)}
         \cup {StringSlice(q) : q \in {<<>>, <<sFoo>>, <<sFoo, sBar>>}}
         \cup {IntSlice(q) : q \in {<<0, 1>>}}
         \cup {NumberArg, MapArg}
         \cup {PathPair(q, r) : q, r \in PathsOver(ChildSteps, MaxComponents)}
         \cup {IndexArg(x) : x \in Indexes}
  /\ uOps = <<>>
  /\ uOut = uIn
  /\ fPath = <<>> /\ fI = 0 /\ fIters = 0

\* the kinds of value a caller can hand over as an any
IsArgument(x) == x.kind \in {"text", "path", "anys", "strings", "ints", "number", "map"}

ValidateJsonPointer ==
  IsArgument(uOut) /\ Apply("validateJsonPointer", ErrorOf(validateJsonPointer(uOut)))
ValidatePath ==
  IsArgument(uOut) /\ Apply("validatePath", ErrorOf(validatePath(uOut)))
CallToPath ==
  IsArgument(uOut) /\ Apply("toPath", PathOf(ToPath(uOut)))
CallIsChild ==
  uOut.kind = "pair" /\ Apply("isChild", BoolOf(IsChild(uOut.parent, uOut.child)))
CallParent ==
  /\ uOut.kind = "path"
  /\ LET r == Parent(uOut.p)
     IN  Apply("parent", IF r.err = "none" THEN PathOf(r.path) ELSE ErrorOf(r.err))
CallIsValidIndex ==
  uOut.kind = "index" /\ Apply("isValidIndex", BoolOf(IsValidIndex(uOut.x)))
CallFastAtoi ==
  uOut.kind = "index" /\ uOut.x.t = "string" /\ Apply("fastAtoi", IntOf(fastAtoi(uOut.x.s)))

PathNext ==
  \/ ValidateJsonPointer
  \/ ValidatePath
  \/ CallToPath
  \/ CallIsChild
  \/ CallParent
  \/ CallIsValidIndex
  \/ CallFastAtoi

PathSpec == PathInit /\ [][PathNext]_vars

(* ------------------------------ find.go: the loop, iteration by iteration *)
\* the steps of the paths handed to find
FindSteps == {StrStep(<<"a">>), StrStep(<<"0">>), StrStep(sName), StrStep(sUser), IntStep(0)}

\* find is called with a document and a path
FindInit ==
  /\ doc \in Docs
  /\ n = 0 /\ step = NoKey /\ hasPointer = TRUE /\ segment = <<>>
  /\ fVal = doc /\ fObj = Nil /\ fKey = NoKey /\ fErr = "none"
  /\ pVal = doc /\ pObj = Nil /\ pKey = NoKey /\ pErr = "none"
  /\ gCur = doc /\ gFast = TRUE /\ gRet = "run"
  /\ uIn = NoArgument /\ uOps = <<>> /\ uOut = NoArgument
  /\ fPath \in PathsOver(FindSteps, MaxPathLen)
  /\ fI = 0 /\ fIters = 0

\* the loop condition i < pathLength holds and find has not returned
FindLoops == fErr = "none" /\ fI < Len(fPath) /\ fIters < MaxIterations

\* val is a pointer that is not nil
IsPointer(val) == val # Nil /\ val.k = "ptr" /\ ~val.isnil

\* the iteration of case reflect.Ptr with the pointer kept as val
FindRetry_NoDereference ==
  /\ FindLoops /\ IsPointer(fVal)
  /\ fObj' = fVal /\ fKey' = fPath[fI + 1]
  /\ fVal' = fVal
  /\ fI' = fI
  /\ fIters' = fIters + 1
  /\ UNCHANGED <<doc, n, step, hasPointer, segment, fErr, fbpVars, getVars, utilVars, fPath>>

\* an iteration of case reflect.Ptr: obj = val, key = path[i], then
\* val = objVal.Elem().Interface(), i-- and continue (i++)
FindRetry ==
  /\ FindLoops /\ IsPointer(fVal)
  /\ fObj' = fVal /\ fKey' = fPath[fI + 1]
  /\ fVal' = fVal.elem
  /\ fI' = fI
  /\ fIters' = fIters + 1
  /\ UNCHANGED <<doc, n, step, hasPointer, segment, fErr, fbpVars, getVars, utilVars, fPath>>

\* an iteration of any other case: the step path[i] is applied, and the
\* loop goes on with i + 1 or find returns an error
FindAdvance ==
  /\ FindLoops /\ ~IsPointer(fVal)
  /\ LET r == findIter(fVal, fPath[fI + 1])
     IN  /\ fVal' = r.val /\ fObj' = r.obj /\ fKey' = r.key /\ fErr' = r.err
         /\ fI' = IF r.err = "none" THEN fI + 1 ELSE fI
  /\ fIters' = fIters + 1
  /\ UNCHANGED <<doc, n, step, hasPointer, segment, fbpVars, getVars, utilVars, fPath>>

FindNext == FindRetry \/ FindAdvance

\* the loop is sequential code with no suspension point: an iteration that
\* can run does run
FindSpec == FindInit /\ [][FindNext]_vars /\ WF_vars(FindNext)

(* ------------------------------ results ------------------------------- *)
\* types.go: Reference{Val, Obj, Key}
Reference(val, obj, key) == [val |-> val, obj |-> obj, key |-> key]
\* a nil *Reference
NilReference == [nilref |-> TRUE]

\* find without the early return for the empty path and with the result
\* declared as a nil Reference filled in by the loop
FindResult_RootUnset ==
  IF n = 0 THEN [ref |-> NilReference, err |-> "none"]
  ELSE IF fErr # "none" THEN [ref |-> NilReference, err |-> fErr]
  ELSE [ref |-> Reference(fVal, fObj, fKey), err |-> "none"]

\* find(doc, path) for the path supplied so far
FindResult ==
  IF n = 0 THEN [ref |-> Reference(doc, Nil, NoKey), err |-> "none"]
  ELSE IF fErr # "none" THEN [ref |-> NilReference, err |-> fErr]
  ELSE [ref |-> Reference(fVal, fObj, fKey), err |-> "none"]

\* findByPointer(pointer, doc) for the pointer string supplied so far
\* (while hasPointer)
FindByPointerResult ==
  IF n = 0 THEN [ref |-> Reference(doc, Nil, NoKey), err |-> "none"]
  ELSE IF pErr # "none" THEN [ref |-> NilReference, err |-> pErr]
  ELSE [ref |-> Reference(pVal, pObj, pKey), err |-> "none"]

\* get(doc, path) for the path supplied so far
GetResult ==
  IF n = 0 THEN [val |-> doc, panic |-> FALSE]
  ELSE IF gRet = "panic" THEN [val |-> Nil, panic |-> TRUE]
  ELSE IF gRet = "nil" THEN [val |-> Nil, panic |-> FALSE]
  ELSE [val |-> gCur, panic |-> FALSE]

(* ------------------------------ types.go ------------------------------ *)
\* isArrayReference(ref)
isArrayReference(ref) ==
  IF ref.obj = Nil \/ ref.key = NoKey THEN FALSE
  ELSE IF ref.obj.k # "slice" THEN FALSE
  ELSE CASE ref.key.t \in {"int", "int64"} -> TRUE
         [] ref.key.t = "string"          -> Atoi(ref.key.s).ok
         [] OTHER                         -> FALSE

\* isArrayEnd(ref) of the ArrayReference{Obj, Key} a Reference converts to
isArrayEnd(ref) == Len(ref.obj.elems) = ref.key.n

\* isObjectReference(ref)
isObjectReference(ref) ==
  IF ref.obj = Nil \/ ref.key = NoKey THEN FALSE
  ELSE IF ref.obj.k # "map" \/ ref.obj.kt # "string" THEN FALSE
  ELSE ref.key.t = "string"

(* ------------------------------ vocabulary of the properties ----------- *)
\* a transition in which the walkers read one more step
StepTaken == n' = n + 1

\* the node a chain of non-nil pointers leads to
RECURSIVE Target(_)
Target(v) == IF v # Nil /\ v.k = "ptr" /\ ~v.isnil THEN Target(v.elem) ELSE v

\* a node no step can be applied to: absent or null (Go nil), or a scalar
Leaf(v) == v = Nil \/ v.k \in {"int", "string"}

\* a sequence node: a Go slice
IsSequence(v) == v # Nil /\ v.k = "slice"
\* a mapping with string keys
IsMapping(v) == v # Nil /\ v.k = "map" /\ v.kt = "string"
\* a typed record
IsRecord(v) == v # Nil /\ v.k = "struct"

\* a canonical index: decimal digits only, no leading zero except "0"
Canonical(s) == Len(s) > 0 /\ AllDigits(s) /\ (s[1] = "0" => Len(s) = 1)

\* the walkers are in their loops before the step
FindWalks          == fErr = "none"
FindByPointerWalks == hasPointer' /\ pErr = "none"
GetWalks           == gRet = "run"

\* a result of find or findByPointer: the error err and no Reference
Fails(res, err) == res = [ref |-> NilReference, err |-> err]
\* a result of find or findByPointer: the Reference {val, obj, key}, no error
Returns(res, val, obj, key) == res = [ref |-> Reference(val, obj, key), err |-> "none"]
\* a result of get: absent (nil) / the value v
Absent(res)   == res = [val |-> Nil, panic |-> FALSE]
Yields(res, v) == res = [val |-> v, panic |-> FALSE]

(* ------------------------------ properties ---------------------------- *)
\* C1 - Mid-path failure: whenever a step is applied to a node that is
\* absent, null or a scalar leaf (a missing key or field before the last
\* step is such a node), find and findByPointer fail with NotFound and
\* return no Reference, and get returns absent.
C1_MidPathFailure ==
  [][StepTaken =>
       /\ (FindWalks /\ Leaf(fVal) => Fails(FindResult', "NotFound"))
       /\ (FindByPointerWalks /\ Leaf(pVal) => Fails(FindByPointerResult', "NotFound"))
       /\ (GetWalks /\ Leaf(gCur) => Absent(GetResult'))]_vars

\* C1 witness: find({a:1}, path) for a path of two steps has failed with
\* NotFound, as has findByPointer, and get has returned absent
C1_Witness ==
  /\ doc = AnyMap(<<"a">> :> IntV(1)) /\ n = 2 /\ hasPointer
  /\ step = StrStep(<<"a">>)
  /\ Fails(FindResult, "NotFound") /\ Fails(FindByPointerResult, "NotFound") /\ Absent(GetResult)

\* the index a step denotes: an int step, or a canonical string step
IsIndex(s)  == (s.t = "int" /\ s.n >= 0) \/ (s.t = "string" /\ Canonical(s.s))
IndexOf(s)  == IF s.t = "int" THEN s.n ELSE DigitsValue(s.s)
Length(seq) == Len(seq.elems)

\* C2 as stated - Out-of-bounds is an error in strict mode: for a sequence
\* of length N and a numeric index greater than N, find and findByPointer
\* fail with InvalidIndex or IndexOutOfBounds and never report the position
\* as an absent value; get returns absent.
C2_OutOfBoundsIsError ==
  [][StepTaken /\ IsIndex(step') =>
       /\ (FindWalks /\ IsSequence(Target(fVal)) /\ IndexOf(step') > Length(Target(fVal))
             => fErr' \in {"InvalidIndex", "IndexOutOfBounds"})
       /\ (FindByPointerWalks /\ IsSequence(pVal) /\ IndexOf(step') > Length(pVal)
             => pErr' \in {"InvalidIndex", "IndexOutOfBounds"})
       /\ (GetWalks /\ IsSequence(gCur) /\ IndexOf(step') > Length(gCur) => Absent(GetResult'))]_vars

\* C2 as amended - for a sequence of length N and a numeric index i greater
\* than N, find and findByPointer raise no error at that step: as the last
\* step it yields a Reference with value absent, the sequence as container
\* and i as key; a further step then fails with NotFound.  get returns
\* absent.
C2_OutOfBoundsIsAbsent ==
  [][StepTaken =>
       /\ (IsIndex(step') /\ FindWalks /\ IsSequence(Target(fVal))
             /\ IndexOf(step') > Length(Target(fVal))
             => Returns(FindResult', Nil, Target(fVal), IntStep(IndexOf(step'))))
       /\ (IsIndex(step') /\ FindByPointerWalks /\ IsSequence(pVal) /\ IndexOf(step') > Length(pVal)
             => Returns(FindByPointerResult', Nil, pVal, IntStep(IndexOf(step'))))
       /\ (IsIndex(step') /\ GetWalks /\ IsSequence(gCur) /\ IndexOf(step') > Length(gCur)
             => Absent(GetResult'))
       /\ (FindWalks /\ IsSequence(fObj) /\ fKey.t = "int" /\ fKey.n > Length(fObj)
             => Fails(FindResult', "NotFound"))
       /\ (FindByPointerWalks /\ IsSequence(pObj) /\ pKey.t = "int" /\ pKey.n > Length(pObj)
             => Fails(FindByPointerResult', "NotFound"))]_vars

\* C2 witness: an index beyond the length of a sequence reached by the walk
\* was the last step: both strict functions returned a Reference with value
\* absent, and get returned absent
C2_Witness ==
  /\ n >= 2 /\ hasPointer
  /\ IsSequence(fObj) /\ fKey.t = "int" /\ fKey.n > Length(fObj)
  /\ Returns(FindResult, Nil, fObj, fKey) /\ Returns(FindByPointerResult, Nil, fObj, fKey) /\ Absent(GetResult)

\* C3 as stated - a non-string step is never coerced to a key against a
\* mapping or typed record: for an integer step n, find fails with NotFound
\* and get returns absent, even when the mapping holds the key that spells n.
C3_NoKeyCoercion ==
  [][StepTaken /\ step'.t = "int" =>
       /\ (FindWalks /\ (IsMapping(Target(fVal)) \/ IsRecord(Target(fVal)))
             => Fails(FindResult', "NotFound"))
       /\ (GetWalks /\ (IsMapping(gCur) \/ IsRecord(gCur)) => Absent(GetResult'))]_vars

\* C4 - Canonical index parsing: against a sequence, find and findByPointer
\* accept a string step exactly when it is the end marker or a canonical
\* non-negative decimal integer, and fail with InvalidIndex otherwise ("01",
\* "-1", "1.5", "", " 1", "+1", "-0", "abc"); get returns absent for every
\* step that is not canonical; for every sequence length.
C4_CanonicalIndex ==
  [][StepTaken /\ step'.t = "string" =>
       /\ (FindWalks /\ IsSequence(Target(fVal)) =>
             IF Canonical(step'.s) \/ step'.s = <<"-">>
             THEN fErr' = "none"
             ELSE Fails(FindResult', "InvalidIndex"))
       /\ (FindByPointerWalks /\ IsSequence(pVal) =>
             IF Canonical(segment') \/ segment' = <<"-">>
             THEN pErr' = "none"
             ELSE Fails(FindByPointerResult', "InvalidIndex"))
       /\ (GetWalks /\ IsSequence(gCur) /\ ~Canonical(step'.s) => Absent(GetResult'))]_vars

\* C4 witness: the step "01" against a sequence reached by the walk was
\* rejected by find and findByPointer, and get returned absent
C4_Witness ==
  /\ doc = Siblings(MaxLen) /\ n = 2 /\ hasPointer
  /\ step = StrStep(<<"0", "1">>)
  /\ Fails(FindResult, "InvalidIndex") /\ Fails(FindByPointerResult, "InvalidIndex")
  /\ Absent(GetResult)

\* C5 - Array end marker: for a sequence of any length N reached by the
\* walk, the step "-" makes find and findByPointer succeed with value absent,
\* container the sequence and key the integer N, so that isArrayReference
\* and isArrayEnd hold; get returns absent.
C5_EndMarker ==
  [][StepTaken /\ step' = StrStep(<<"-">>) =>
       /\ (FindWalks /\ IsSequence(Target(fVal)) =>
             /\ Returns(FindResult', Nil, Target(fVal), IntStep(Length(Target(fVal))))
             /\ isArrayReference(FindResult'.ref) /\ isArrayEnd(FindResult'.ref))
       /\ (FindByPointerWalks /\ IsSequence(pVal) =>
             /\ Returns(FindByPointerResult', Nil, pVal, IntStep(Length(pVal)))
             /\ isArrayReference(FindByPointerResult'.ref)
             /\ isArrayEnd(FindByPointerResult'.ref))
       /\ (GetWalks /\ IsSequence(gCur) => Absent(GetResult'))]_vars

\* C5 witness: the end marker was resolved against an empty sequence found
\* under a mapping
C5_Witness ==
  /\ doc = Siblings(0) /\ n = 2 /\ hasPointer /\ step = StrStep(<<"-">>)
  /\ Returns(FindResult, Nil, SeqOfLen(0), IntStep(0))
  /\ Returns(FindByPointerResult, Nil, SeqOfLen(0), IntStep(0))
  /\ isArrayEnd(FindResult.ref) /\ Absent(GetResult)

\* C6 - One-past-end is absent, not an error: for a sequence of length N,
\* the index N (integer N or its canonical string) makes find and
\* findByPointer succeed with value absent, container the sequence and key
\* the integer N; get returns absent.
C6_OnePastEnd ==
  [][StepTaken /\ IsIndex(step') =>
       /\ (FindWalks /\ IsSequence(Target(fVal)) /\ IndexOf(step') = Length(Target(fVal))
             => Returns(FindResult', Nil, Target(fVal), IntStep(Length(Target(fVal)))))
       /\ (FindByPointerWalks /\ IsSequence(pVal) /\ IndexOf(step') = Length(pVal)
             => Returns(FindByPointerResult', Nil, pVal, IntStep(Length(pVal))))
       /\ (GetWalks /\ IsSequence(gCur) /\ IndexOf(step') = Length(gCur)
             => Absent(GetResult'))]_vars

\* C6 witness: the canonical string of the length of a non-empty sequence
\* was the last step
C6_Witness ==
  /\ n >= 1 /\ hasPointer /\ step.t = "string"
  /\ IsSequence(fObj) /\ Length(fObj) > 0
  /\ Returns(FindResult, Nil, fObj, IntStep(Length(fObj)))
  /\ Returns(FindByPointerResult, Nil, fObj, IntStep(Length(fObj)))
  /\ Canonical(step.s) /\ DigitsValue(step.s) = Length(fObj)
  /\ Absent(GetResult)

\* the keys a mapping holds; the names that address a visible field of a
\* typed record (json tag or declared name)
Contains(v, s) ==
  IF v.k = "map" THEN s \in DOMAIN v.m
  ELSE \E i \in 1..Len(v.fields) :
         /\ Exported(v.fields[i])
         /\ ~(v.fields[i].tagged /\ v.fields[i].tag = <<"-">>)
         /\ (v.fields[i].name = s \/ (v.fields[i].tagged /\ v.fields[i].tag = s))

C8_RootIdentity ==
  n = 0 =>
    /\ Returns(FindResult, doc, Nil, NoKey)
    /\ Returns(FindByPointerResult, doc, Nil, NoKey)
    /\ Yields(GetResult, doc)

\* C8 witness: the three functions were given the empty path and a scalar
C8_Witness == n = 0 /\ doc = IntV(7) /\ Yields(GetResult, IntV(7))

\* C9 as stated - Permissive get never raises: for every document and every
\* path, get returns a value of the document or absent; nothing aborts the
\* call.
C9_GetNeverRaises == ~GetResult.panic

\* C10 as stated - Typed-record field lookup in get: a string step against
\* a typed record resolves to the field whose json tag equals the step,
\* otherwise to the field whose declared name equals the step; unexported
\* fields and fields tagged "-" resolve as absent.
C10_GetRecordField ==
  [][StepTaken /\ step'.t = "string" /\ GetWalks /\ IsRecord(gCur)
       => Yields(GetResult', structField(step'.s, gCur).val)]_vars

\* what find returns when its loop ends with the variables r
ResultOf(r) ==
  IF r.err # "none" THEN [ref |-> NilReference, err |-> r.err]
  ELSE [ref |-> Reference(r.val, r.obj, r.key), err |-> "none"]

\* what get returns when its loops end in r
ValueOf(r) ==
  IF r.ret = "panic" THEN [val |-> Nil, panic |-> TRUE]
  ELSE IF r.ret = "nil" THEN [val |-> Nil, panic |-> FALSE]
  ELSE [val |-> r.cur, panic |-> FALSE]

\* a chain of one or more non-nil pointers in front of a sequence, mapping
\* or typed record
IsIndirection(v) ==
  /\ v # Nil /\ v.k = "ptr" /\ ~v.isnil
  /\ IsSequence(Target(v)) \/ IsMapping(Target(v)) \/ IsRecord(Target(v))

\* C11 as stated - Transparent dereference: a step applied to a chain of
\* non-nil pointers in front of a sequence, mapping or typed record resolves
\* exactly as the same step applied to the pointed-to node, in find and in
\* get, at the root and mid-path.
C11_TransparentDereference ==
  [][StepTaken =>
       /\ (FindWalks /\ IsIndirection(fVal)
             => FindResult' = ResultOf(findIter(Target(fVal), step')))
       /\ (GetWalks /\ IsIndirection(gCur)
             => GetResult' = ValueOf(getLoops(Target(gCur), TRUE, step')))]_vars

\* a nil pointer, possibly behind a chain of non-nil pointers
IsNilIndirection(v) == Target(v) # Nil /\ Target(v).k = "ptr" /\ Target(v).isnil

\* C12 as stated - Nil indirection in strict mode: when a step is to be
\* applied to a nil pointer, find fails with the error kind NilReference,
\* which is distinguishable from NotFound.
C12_NilIndirectionIsNilReference ==
  [][StepTaken /\ FindWalks /\ IsNilIndirection(fVal)
       => Fails(FindResult', "NilReference")]_vars

\* C12 amended - when a step is to be applied to a nil pointer, find fails
\* and returns no Reference, with the error kind NotFound: the same kind as
\* for a step applied to an absent value or a scalar.
C12_NilIndirectionIsNotFound ==
  [][StepTaken /\ FindWalks /\ IsNilIndirection(fVal)
       => Fails(FindResult', "NotFound")]_vars

\* C12 witness: one step was applied to a document that is a nil pointer to
\* a typed record, and find failed
C12_Witness ==
  /\ doc = NilPtr("conc", User) /\ n = 1 /\ step = StrStep(sName)
  /\ FindResult.err # "none" /\ FindResult.ref = NilReference

\* C13 as stated - findByPointer is find composed with parse: for every
\* pointer string and document, findByPointer returns the same outcome as
\* find on the parsed path - the same error kind, or a Reference with the
\* same value, container and key (a mapping key being the unescaped segment).
C13_FindByPointerIsFindOfParse ==
  hasPointer => FindByPointerResult = FindResult

\* a node addressed by index: a slice or a fixed-size array
IsIndexed(v) == v # Nil /\ v.k \in {"slice", "array"}

\* the final step in normalized form against the container c: the parsed
\* index (the length for the end marker) for a sequence, the step itself for
\* a mapping or record
NormalKey(c, s) ==
  IF IsIndexed(c)
  THEN IF s = StrStep(<<"-">>) THEN IntStep(Length(c)) ELSE IntStep(IndexOf(s))
  ELSE s

\* container[key] when that position exists, absent otherwise
Lookup(c, key) ==
  CASE IsIndexed(c) -> IF key.n < Length(c) THEN At(c, key.n) ELSE Nil
    [] IsMapping(c) -> IF HasKey(c, key.s) THEN c.m[key.s] ELSE Nil
    [] IsRecord(c)  -> structField(key.s, c).val
    [] OTHER        -> Nil

\* the Reference the claimed shape prescribes for the step s taken from the
\* node v
ShapedReference(v, s) ==
  LET c == Target(v)
      k == NormalKey(c, s)
  IN  Reference(Lookup(c, k), c, k)

\* C14 as stated - Reference shape for a non-root resolution: every
\* Reference returned by find or findByPointer for a non-empty path has as
\* container the last node the walk stepped into, after dereferencing, as key
\* the final step in normalized form, and as value container[key] when that
\* position exists and absent otherwise.
C14_ReferenceShape ==
  [][StepTaken =>
       /\ (FindWalks /\ FindResult'.err = "none"
             => FindResult'.ref = ShapedReference(fVal, step'))
       /\ (FindByPointerWalks /\ FindByPointerResult'.err = "none"
             => FindByPointerResult'.ref = ShapedReference(pVal, step'))]_vars

\* a string step that looks numeric: decimal digits only
NumericLooking(s) == s.t = "string" /\ Len(s.s) > 0 /\ AllDigits(s.s)

\* C15 - Mapping versus sequence dual interpretation: a numeric-looking
\* string step resolves by literal key lookup under a mapping, the Reference
\* key staying that string, and by index parsing under a sequence, the
\* Reference key being the integer; a non-canonical numeric string ("01") is
\* an ordinary key under the mapping and InvalidIndex under the sequence (get
\* returns absent for it).  Both shapes are siblings in one document.
C15_DualInterpretation ==
  [][StepTaken /\ NumericLooking(step') =>
       /\ (FindWalks /\ IsMapping(fVal)
             => Returns(FindResult', Lookup(fVal, step'), fVal, step'))
       /\ (FindWalks /\ IsSequence(fVal) =>
             IF Canonical(step'.s)
             THEN Returns(FindResult', Lookup(fVal, IntStep(IndexOf(step'))), fVal,
                          IntStep(IndexOf(step')))
             ELSE Fails(FindResult', "InvalidIndex"))
       /\ (FindByPointerWalks /\ IsMapping(pVal)
             => Returns(FindByPointerResult', Lookup(pVal, step'), pVal, step'))
       /\ (FindByPointerWalks /\ IsSequence(pVal) =>
             IF Canonical(step'.s)
             THEN Returns(FindByPointerResult', Lookup(pVal, IntStep(IndexOf(step'))), pVal,
                          IntStep(IndexOf(step')))
             ELSE Fails(FindByPointerResult', "InvalidIndex"))
       /\ (GetWalks /\ IsMapping(gCur) => Yields(GetResult', Lookup(gCur, step')))
       /\ (GetWalks /\ IsSequence(gCur) =>
             IF Canonical(step'.s)
             THEN Yields(GetResult', Lookup(gCur, IntStep(IndexOf(step'))))
             ELSE Absent(GetResult'))]_vars

\* C15 witness: in the document with a mapping under "0" and a sequence
\* under "a", the step "01" under the mapping was an ordinary key
C15_Witness ==
  /\ doc = Siblings(MaxLen) /\ n = 2 /\ hasPointer /\ step = StrStep(<<"0", "1">>)
  /\ Returns(FindResult, IntV(6), NumericKeys, StrStep(<<"0", "1">>))
  /\ Returns(FindByPointerResult, IntV(6), NumericKeys, StrStep(<<"0", "1">>))
  /\ Yields(GetResult, IntV(6))

\* a pointer string accepted as valid: empty, or starting with "/"
ValidPointer(s) == s = <<>> \/ s[1] = "/"

\* every "~" of the string starts an escape sequence "~0" or "~1"
WellEscaped(s) ==
  \A i \in 1..Len(s) : s[i] = "~" => (i < Len(s) /\ s[i + 1] \in {"0", "1"})

\* the caller started from the string s and applied the conversions ops
Converted(s, ops) == uIn = Text(s) /\ uOps = ops

\* C16 as stated - Round trip format after parse: format(parse(s)) == s for
\* every pointer string s that is empty or starts with "/", whatever
\* follows, including "~" characters and empty segments.
C16_FormatAfterParse ==
  uIn.kind = "text" /\ ValidPointer(uIn.s) /\ uOps = <<"parse", "format">>
    => uOut = uIn

\* C16 amended - format(parse(s)) == s for every pointer string s that is
\* empty or starts with "/" and in which every "~" is followed by "0" or
\* "1"; empty segments are kept.
C16_FormatAfterParseEscaped ==
  uIn.kind = "text" /\ ValidPointer(uIn.s) /\ WellEscaped(uIn.s)
  /\ uOps = <<"parse", "format">>
    => uOut = uIn

\* C16 witness: "/a~0b/c~1d/1" was parsed and formatted back to itself
C16_Witness ==
  /\ Converted(<<"/", "a", "~", "0", "b", "/", "c", "~", "1", "d", "/", "1">>,
               <<"parse", "format">>)
  /\ uOut = uIn

\* C17 - Round trip parse after format: parse(format(p)) == p, step for
\* step, for every path p whose steps are strings, including the empty path,
\* empty-string steps and steps containing "~" or "/".
C17_ParseAfterFormat ==
  uIn.kind = "path" /\ uOps = <<"format", "parse">> => uOut = uIn

\* C17 witness: the path ["a~b/c", ""] was formatted and parsed back to
\* itself
C17_Witness ==
  /\ uIn = PathOf(<<StrStep(<<"a", "~", "b", "/", "c">>), StrStep(<<>>)>>)
  /\ uOps = <<"format", "parse">>
  /\ uOut = uIn

\* C18 - Escaping round trip: unescape(escape(c)) == c for every component
\* string c; escape maps "~" to "~0" and "/" to "~1" without double-encoding
\* (escape("a~b/c") == "a~0b~1c", and no "/" or stray "~" is left in an
\* escaped component); unescape decodes in a single left-to-right pass, so
\* that "~01" unescapes to "~1" and not to "/".
C18_EscapeRoundTrip ==
  uIn.kind = "text" =>
    /\ (uOps = <<"escape", "unescape">> => uOut = uIn)
    /\ (uOps = <<"escape">> =>
          /\ WellEscaped(uOut.s)
          /\ \A i \in 1..Len(uOut.s) : uOut.s[i] # "/")
    /\ (Converted(<<"a", "~", "b", "/", "c">>, <<"escape">>)
          => uOut = Text(<<"a", "~", "0", "b", "~", "1", "c">>))
    /\ (Converted(<<"~", "0", "1">>, <<"unescape">>) => uOut = Text(<<"~", "1">>))

\* C18 witness: the component "~1" was escaped and unescaped back to "~1"
C18_Witness ==
  /\ Converted(<<"~", "1">>, <<"escape", "unescape">>)
  /\ uOut = Text(<<"~", "1">>)

\* the nodes of a document: the node itself and the nodes of its elements,
\* values, fields and pointee
RECURSIVE Nodes(_)
Nodes(v) ==
  {v} \cup
  (CASE v = Nil                    -> {}
     [] v.k \in {"slice", "array"} -> UNION {Nodes(v.elems[i]) : i \in 1..Len(v.elems)}
     [] v.k = "map"                -> UNION {Nodes(v.m[x]) : x \in DOMAIN v.m}
     [] v.k = "struct"             -> UNION {Nodes(v.fields[i].val) : i \in 1..Len(v.fields)}
     [] v.k = "ptr"                -> IF v.isnil THEN {} ELSE Nodes(v.elem)
     [] OTHER                      -> {})

Classified(ref) ==
  /\ IsIndexed(ref.obj) => isArrayReference(ref) /\ ~isObjectReference(ref)
  /\ IsMapping(ref.obj) => isObjectReference(ref) /\ ~isArrayReference(ref)
  /\ ~(isArrayReference(ref) /\ isObjectReference(ref))

\* C20 as stated - Classification of returned references: every Reference
\* returned by find or findByPointer for a non-empty path satisfies
\* isArrayReference and not isObjectReference when its container is a
\* sequence (a slice or a fixed-size array), and isObjectReference and not
\* isArrayReference when its container is a string-keyed mapping; the two
\* predicates are never both true.
C20_ReferenceClassification ==
  n > 0 =>
    /\ (FindResult.err = "none" => Classified(FindResult.ref))
    /\ (hasPointer /\ FindByPointerResult.err = "none" => Classified(FindByPointerResult.ref))

\* the caller called the one path utility op on the argument it started from
Called(op) == uOps = <<op>>

IsSequenceArgument(a) == a.kind \in {"path", "anys", "strings", "ints"}
StepCount(a) ==
  CASE a.kind = "strings" -> Len(a.ss)
    [] a.kind = "ints"    -> Len(a.ns)
    [] OTHER              -> Len(a.p)
StepsAreKeysOrNumbers(a) ==
  a.kind \in {"path", "anys"} =>
    \A j \in 1..Len(a.p) : a.p[j].t \notin {"bool", "nil", "slice", "map"}

\* C22 - Path validation limit: validatePath accepts a path exactly when
\* it has at most 256 steps and every step is a string or a number; a path
\* of more than 256 steps (257, say) fails with PathTooLong, a path within
\* the limit with a boolean, nil or nested-container step fails with
\* InvalidPathStep, and an argument that is no sequence with InvalidPath.
C22_PathValidation ==
  Called("validatePath") =>
    /\ uOut = ErrorOf("none")
         <=> (IsSequenceArgument(uIn) /\ StepCount(uIn) <= 256 /\ StepsAreKeysOrNumbers(uIn))
    /\ ~IsSequenceArgument(uIn) => uOut = ErrorOf("InvalidPath")
    /\ (IsSequenceArgument(uIn) /\ StepCount(uIn) > 256) => uOut = ErrorOf("PathTooLong")
    /\ (IsSequenceArgument(uIn) /\ StepCount(uIn) <= 256 /\ ~StepsAreKeysOrNumbers(uIn))
         => uOut = ErrorOf("InvalidPathStep")

\* a path of exactly 256 steps has been validated and accepted
C22_Witness ==
  /\ Called("validatePath")
  /\ uIn.kind = "path" /\ Len(uIn.p) = 256
  /\ uOut = ErrorOf("none")

\* the positions of the "/" of a string, the j-th of them, and the segment
\* that follows the j-th "/" (up to the next "/" or the end of the string)
Slashes(s) == {i \in 1..Len(s) : s[i] = "/"}
NthSlash(s, j) == CHOOSE i \in Slashes(s) : Cardinality({k \in Slashes(s) : k <= i}) = j
SegmentAfter(s, j) ==
  SubSeq(s, NthSlash(s, j) + 1,
         IF j = Cardinality(Slashes(s)) THEN Len(s) ELSE NthSlash(s, j + 1) - 1)

\* C23 - Parse keeps empty segments: for every non-empty pointer string
\* that starts with "/", parseJsonPointer returns exactly one step per "/"
\* of the string, the j-th step being the (unescaped) segment after the
\* j-th "/", empty segments included and in order; "/" parses to the one
\* step "" and the empty string to the empty path.
C23_ParseKeepsEmptySegments ==
  (uOps = <<"parse">> /\ uIn.kind = "text" /\ ValidPointer(uIn.s)) =>
    LET s == uIn.s
    IN  /\ uOut.kind = "path"
        /\ Len(uOut.p) = Cardinality(Slashes(s))
        /\ \A j \in 1..Len(uOut.p) : uOut.p[j] = StrStep(unescapeComponent(SegmentAfter(s, j)))
        /\ s = <<"/">> => uOut.p = <<StrStep(<<>>)>>
        /\ s = <<>> => uOut.p = <<>>

\* "/foo///" has been parsed to the four steps "foo", "", "", ""
C23_Witness ==
  /\ Converted(<<"/", "f", "o", "o", "/", "/", "/">>, <<"parse">>)
  /\ uOut = PathOf(<<StrStep(<<"f", "o", "o">>), StrStep(<<>>), StrStep(<<>>), StrStep(<<>>)>>)

\* C24 as stated - ToPath accepts a slice of strings: ToPath on a []string
\* returns the path with the same steps in the same order
\* (ToPath(["foo", "bar"]) is the path foo, bar), as it does for a pointer
\* string, which it parses, and for a Path, which it returns as it is.
C24_ToPathOfStringSlice ==
  Called("toPath") =>
    /\ uIn.kind = "strings" => uOut = PathOf([j \in 1..Len(uIn.ss) |-> StrStep(uIn.ss[j])])
    /\ uIn.kind = "text" => uOut = PathOf(parseJsonPointer(uIn.s))
    /\ uIn.kind = "path" => uOut = uIn

\* two steps name the same reference token: the same step, or an integer
\* and the string of its decimal digits
SameStep(a, b) ==
  \/ a = b
  \/ a.t = "int" /\ b.t = "string" /\ b.s = Itoa(a.n)
  \/ a.t = "string" /\ b.t = "int" /\ a.s = Itoa(b.n)

C26_ParentOfPath ==
  (Called("parent") /\ uIn.kind = "path") =>
    LET p == uIn.p
    IN  /\ p # <<>> => /\ uOut.kind = "path"
                       /\ Len(uOut.p) = Len(p) - 1
                       /\ \A j \in 1..(Len(p) - 1) : uOut.p[j] = p[j]
        /\ p = <<>> => uOut = ErrorOf("NoParent")

\* Parent has returned foo, bar for foo, bar, baz
C26_Witness ==
  /\ Called("parent")
  /\ uIn = PathOf(<<StrStep(<<"f", "o", "o">>), StrStep(<<"b", "a", "r">>),
                    StrStep(<<"b", "a", "z">>)>>)
  /\ uOut = PathOf(<<StrStep(<<"f", "o", "o">>), StrStep(<<"b", "a", "r">>)>>)

\* get and find agree on the path supplied so far: get returns the value of
\* the Reference find returns, and absent when find fails
GetAgreesWithFind ==
  /\ FindResult.err = "none" => Yields(GetResult, FindResult.ref.val)
  /\ FindResult.err \notin {"none", "panic"} => Absent(GetResult)

\* C27 as stated - get and find agree on every input: for every document
\* and every path of string and integer steps, whenever find returns a
\* Reference get returns that Reference's value, and whenever find fails
\* get returns absent. (Step by step: two results that agree on a path
\* agree on the path with one more string or integer step.)
C27_GetAgreesWithFind ==
  [][(StepTaken /\ step'.t \in {"string", "int"} /\ GetAgreesWithFind) => GetAgreesWithFind']_vars

\* find accepts the step x as a step against a sequence: parseArrayKey
\* reports no error; findByPointer accepts the segment s against a sequence
FindAccepts(x) == findSequence(SeqOfLen(0), x).err = "none"
FindByPointerAccepts(s) == findByPointerIter(SeqOfLen(0), s).err = "none"

\* C28 as stated - Index parsers agree: IsValidIndex(s) is true exactly
\* when find and findByPointer accept the string s as a step against a
\* sequence ("-" or a canonical non-negative decimal, one that fits the
\* machine int), and for s other than "-" exactly when fastAtoi(s) returns
\* a non-negative value, which is the index find uses.
C28_IndexParsersAgree ==
  (Called("isValidIndex") /\ uIn.kind = "index" /\ uIn.x.t = "string") =>
    LET s == uIn.x.s
    IN  /\ uOut.b <=> FindAccepts(StrStep(s))
        /\ uOut.b <=> FindByPointerAccepts(s)
        /\ uOut.b <=> (s = <<"-">> \/ (Canonical(s) /\ DigitsValue(s) <= MaxInt))
        /\ s # <<"-">> =>
             /\ uOut.b <=> fastAtoi(s) >= 0
             /\ uOut.b => fastAtoi(s) = parseArrayKey(StrStep(s)).index

\* C29 as stated - fastAtoi overflow detection: for every string of decimal
\* digits whose value does not fit the machine int fastAtoi returns -1,
\* and for every canonical digit string whose value fits it returns that
\* value.
C29_FastAtoiOverflow ==
  (Called("fastAtoi") /\ uIn.kind = "index" /\ Canonical(uIn.x.s)) =>
    /\ DigitsValue(uIn.x.s) > MaxInt => uOut = IntOf(-1)
    /\ DigitsValue(uIn.x.s) <= MaxInt => uOut = IntOf(DigitsValue(uIn.x.s))

\* find has returned: a Reference, after the last step, or an error
FindReturned == fErr # "none" \/ fI = Len(fPath)

\* the number of non-nil pointers in front of a node
RECURSIVE ChainLength(_)
ChainLength(v) == IF v # Nil /\ v.k = "ptr" /\ ~v.isnil THEN 1 + ChainLength(v.elem) ELSE 0

\* the indirection nodes of the document
Indirections(v) == {x \in Nodes(v) : x # Nil /\ x.k = "ptr" /\ ~x.isnil}

====
